---------------------------- MODULE Spec2Model ----------------------------
(***************************************************************************)
(* dynamic_tables/tables.py: the Column entity, its tag interpreter        *)
(* (Column.parse_tag, Column.safe_tag), the ordering transformer of        *)
(* BaseTable, the definition of a Table class (TableMetaclass,             *)
(* BaseTable.get_columns), BaseTable.render, and the instances of a Table  *)
(* class (BaseTable.__init__, annotate, sort).                             *)
(*                                                                         *)
(* Python strings are sequences of one-character strings, so that          *)
(* str.replace, str.index, str.split and re.findall are computed as the    *)
(* interpreter computes them. Column objects that several lists refer to   *)
(* live in a heap and are listed by identity.                              *)
(***************************************************************************)
EXTENDS Integers, Sequences, FiniteSets, TLC

VARIABLES
    \* ---- Column.parse_tag(self, obj, cell, row_idx) ----
    self_tag,       \* self.tag, the column's template
    obj,            \* the row
    cell,           \* the pre-extracted cell value
    row_idx,        \* the row index
    tag,            \* local: the template being rewritten
    replace_vals,   \* local: the tokens found by re.findall
    pos,            \* local: position of the for loop in replace_vals (1-based)
    value,          \* local: the value resolved for the last token
    pc,             \* "call" | "loop" | "done" | "raised"
    \* ---- Column(name, display_name, order_by, ...) ----
    arg_name,       \* first positional argument: a name, a list or a mapping
    kw_display,     \* keyword argument display_name
    kw_order,       \* keyword argument order_by
    column,         \* the dict the Column is (key -> value)
    cpc,            \* "call" | "from_dict" | "from_list" | "backfill" | "done"
    \* ---- BaseTable.get_ordering(order_by) ----
    apps,           \* the models: model name -> field name -> field
    meta_model,     \* cls._meta.model
    order_arg,      \* the sort specification string
    tokens,         \* order_by.split(',')
    ordering,       \* the results produced so far
    opc,            \* "call" | "loop" | "done"
    \* ---- TableMetaclass.__new__ and BaseTable.get_columns() ----
    meta_fields,    \* cls._meta.fields: None, a list of column specs or a dict
    meta_exclude,   \* cls._meta.exclude: None or a list of names
    meta_annotations, \* cls._meta.annotations
    model_opts,     \* cls._meta.model._meta: the fields of the schema model
    fields,         \* local of get_columns: the entries being resolved
    exclude,        \* local of get_columns: exclude or []
    flds,           \* local of get_columns: the columns kept so far
    fpos,           \* local of get_columns: position of the for loop (1-based)
    base_columns,   \* the class attribute base_columns
    annotations,    \* the class attribute annotations
    dpc,            \* "get_columns" | "loop" | "return" | "defined" | "raised"
    \* ---- BaseTable.render(self, obj, col, row_idx) ----
    r_obj,          \* obj, the row
    r_col,          \* col, the Column
    r_row_idx,      \* row_idx
    r_cell,         \* local: cell
    hooks,          \* the names <name> the table defines a render_<name> method for
    hook_ret,       \* what a render_<name> method returns
    hook_calls,     \* the arguments each call of a render_<name> method got
    result,         \* the value render returns
    rpc,            \* "call" | "choose" | "parse_tag" | "done" | "raised"
    \* ---- instances of one Table class: BaseTable.__init__, annotate, sort ----
    heap,           \* the Column objects: identity -> the dict
    class_columns,  \* T.base_columns: the identities of the Column objects it lists
    meta_sortable,  \* cls._meta.sortable
    tables,         \* instance -> its attributes and the locals of its running call
    ops,            \* the mutations and annotate() calls made so far
    \* ---- Column.safe_tag(self) ----
    safe,           \* the value safe_tag returns
    spc             \* "call" | "done"

tagVars == <<self_tag, obj, cell, row_idx, tag, replace_vals, pos, value, pc>>
colVars == <<arg_name, kw_display, kw_order, column, cpc>>
ordVars == <<apps, meta_model, order_arg, tokens, ordering, opc>>
clsVars == <<meta_fields, meta_exclude, meta_annotations, model_opts, fields, exclude,
             flds, fpos, base_columns, annotations, dpc>>
rndVars == <<r_obj, r_col, r_row_idx, r_cell, hooks, hook_ret, hook_calls, result, rpc>>
instVars == <<heap, class_columns, meta_sortable, tables, ops>>
sftVars == <<safe, spc>>
restVars == <<clsVars, rndVars, instVars, sftVars>>
\* what a class definition, a call of render, and the work on instances leave alone
outsideDefine == <<tagVars, colVars, ordVars, rndVars, instVars, sftVars>>
outsideRender == <<colVars, ordVars, clsVars, instVars, sftVars>>
outsideTables == <<tagVars, colVars, ordVars, clsVars, rndVars, sftVars>>
vars == <<tagVars, colVars, ordVars, restVars>>

---------------------------------------------------------------------------
(* Python values *)

None == [t |-> "none"]
StrV(s) == [t |-> "str", s |-> s]
BoolV(b) == [t |-> "bool", b |-> b]
IntV(n) == [t |-> "int", n |-> n]
\* a callable taking no arguments: ret is the value it returns, or Raises
Raises == [t |-> "raises"]
Callable(ret) == [t |-> "callable", ret |-> ret]
\* rows: a mapping with items, an object with attributes
DictRow(items) == [t |-> "dict", items |-> items]
ObjectRow(attrs) == [t |-> "object", attrs |-> attrs]
NoAttrs == [k \in {} |-> None]
\* an annotation expression, as a column or Meta.annotations holds it
Expr(e) == [t |-> "expr", e |-> e]

\* the empty str
EmptyStr == StrV(<<>>)

\* decimal digits of a natural number
RECURSIVE Digits(_)
Digits(n) ==
    LET d == <<"0", "1", "2", "3", "4", "5", "6", "7", "8", "9">>[(n % 10) + 1]
    IN IF n < 10 THEN <<d>> ELSE Digits(n \div 10) \o <<d>>

\* repr() of the values a row holds
Repr(v) ==
    CASE v.t = "none" -> <<"N", "o", "n", "e">>
      [] v.t = "str" -> <<"'">> \o v.s \o <<"'">>
      [] v.t = "bool" -> IF v.b THEN <<"T", "r", "u", "e">> ELSE <<"F", "a", "l", "s", "e">>
      [] v.t = "int" -> IF v.n < 0 THEN <<"-">> \o Digits(-v.n) ELSE Digits(v.n)
      [] OTHER -> <<"<", "f", ">">>

\* repr() of a dict: "{'k': v, ...}", keys in insertion order (one key at most here)
RECURSIVE ReprItems(_, _)
ReprItems(items, keys) ==
    IF keys = {} THEN <<>>
    ELSE LET k == CHOOSE x \in keys : TRUE
         IN <<"'">> \o k \o <<"'", ":", " ">> \o Repr(items[k])
            \o (IF keys = {k} THEN <<>> ELSE <<",", " ">> \o ReprItems(items, keys \ {k}))

\* str(value)
PyStr(v) ==
    CASE v.t = "str" -> v.s
      [] v.t = "dict" -> <<"{">> \o ReprItems(v.items, DOMAIN v.items) \o <<"}">>
      [] v.t = "object" -> <<"<", "R", "o", "w", ">">>
      [] OTHER -> Repr(v)

\* bool(value): the truth value `if value:` tests
Truthy(v) ==
    CASE v.t = "none" -> FALSE
      [] v.t = "str" -> v.s # <<>>
      [] v.t = "bool" -> v.b
      [] v.t = "int" -> v.n # 0
      [] v.t = "dict" -> DOMAIN v.items # {}
      [] OTHER -> TRUE

\* the state of a routine that is not running
TagIdle ==
    /\ self_tag = <<>> /\ obj = None /\ cell = None /\ row_idx = None
    /\ tag = <<>> /\ replace_vals = <<>> /\ pos = 1 /\ value = None /\ pc = "idle"
ColIdle ==
    /\ arg_name = None /\ kw_display = None /\ kw_order = None
    /\ column = NoAttrs /\ cpc = "idle"
OrdIdle ==
    /\ apps = NoAttrs /\ meta_model = None /\ order_arg = <<>> /\ tokens = <<>>
    /\ ordering = <<>> /\ opc = "idle"
ClsIdle ==
    /\ meta_fields = None /\ meta_exclude = None /\ meta_annotations = NoAttrs
    /\ model_opts = None /\ fields = None /\ exclude = None /\ flds = <<>>
    /\ fpos = 1 /\ base_columns = <<>> /\ annotations = NoAttrs /\ dpc = "idle"
RndIdle ==
    /\ r_obj = None /\ r_col = NoAttrs /\ r_row_idx = None /\ r_cell = None
    /\ hooks = {} /\ hook_ret = None /\ hook_calls = <<>> /\ result = None /\ rpc = "idle"
InstIdle ==
    /\ heap = <<>> /\ class_columns = <<>> /\ meta_sortable = TRUE /\ tables = <<>> /\ ops = 0
SftIdle == safe = None /\ spc = "idle"
RestIdle == ClsIdle /\ RndIdle /\ InstIdle /\ SftIdle

---------------------------------------------------------------------------
(* str methods and re.findall *)

StartsWith(s, prefix) ==
    Len(s) >= Len(prefix) /\ SubSeq(s, 1, Len(prefix)) = prefix

\* s[n:]
From(s, n) == SubSeq(s, n + 1, Len(s))
\* s[:n], n an index within s
UpTo(s, n) == SubSeq(s, 1, n)

\* s.find(sub): the lowest 0-based index of sub in s, -1 when there is none
\* (s.index(sub) raises ValueError where find returns -1)
Find(s, sub) ==
    LET at == {i \in 0..(Len(s) - Len(sub)) : SubSeq(s, i + 1, i + Len(sub)) = sub}
    IN IF at = {} THEN -1 ELSE CHOOSE i \in at : \A j \in at : i <= j

Contains(s, sub) == Find(s, sub) # -1

\* s.replace(old, new, count): count < 0 replaces every occurrence
RECURSIVE ReplaceN(_, _, _, _)
ReplaceN(s, old, new, count) ==
    LET i == Find(s, old)
    IN IF count = 0 \/ i = -1 THEN s
       ELSE UpTo(s, i) \o new \o ReplaceN(From(s, i + Len(old)), old, new, count - 1)

Replace(s, old, new) == ReplaceN(s, old, new, -1)

\* str.replace(old, new, 1) with the count lost: every occurrence is replaced
ReplaceFirst_All(s, old, new) == ReplaceN(s, old, new, -1)

\* str.replace(old, new, 1)
ReplaceFirst(s, old, new) == ReplaceN(s, old, new, 1)

IsBrace(c) == c = "{" \/ c = "}"

\* the end of the run of non-brace characters starting at p (1-based):
\* the first position >= p holding a brace, Len(s)+1 when there is none
RECURSIVE RunEnd(_, _)
RunEnd(s, p) == IF p > Len(s) \/ IsBrace(s[p]) THEN p ELSE RunEnd(s, p + 1)

\* re.findall(r"\{([^{}]+)\}", s) scanning from position p
RECURSIVE FindAllFrom(_, _)
FindAllFrom(s, p) ==
    IF p > Len(s) THEN <<>>
    ELSE IF s[p] = "{"
         THEN LET e == RunEnd(s, p + 1)
              IN IF e > p + 1 /\ e <= Len(s) /\ s[e] = "}"
                 THEN <<SubSeq(s, p + 1, e - 1)>> \o FindAllFrom(s, e + 1)
                 ELSE FindAllFrom(s, p + 1)
         ELSE FindAllFrom(s, p + 1)

FindAll(s) == FindAllFrom(s, 1)

---------------------------------------------------------------------------
(* text of the tag syntax *)

OPEN == <<"{", "{">>
CLOSE == <<"}", "}">>
IF_ == <<"i", "f", " ">>
ELSE_ == <<"e", "l", "s", "e">>
ENDIF == <<"e", "n", "d", "i", "f">>
ITEM == <<"i", "t", "e", "m">>
ITEM_DOT == <<"i", "t", "e", "m", ".">>
ROW_IDX == <<"r", "o", "w", "_", "i", "d", "x">>

Marker(token) == OPEN \o token \o CLOSE
IfMarker(cond) == OPEN \o IF_ \o cond \o CLOSE
ElseMarker == Marker(ELSE_)
EndifMarker == Marker(ENDIF)

---------------------------------------------------------------------------
(* Column.parse_tag: the value of a token (tables.py lines 114-132) *)

\* getattr(obj, key): Raises stands for the AttributeError of a missing attribute
\* (a dict row and a None row have no attribute of a data name)
GetAttr(o, key) ==
    IF o.t = "object" /\ key \in DOMAIN o.attrs THEN o.attrs[key] ELSE Raises

\* value(): calling a callable gives its result or raises
Call(f) == f.ret

\* GetValue with the row_idx case lost: row_idx falls through to the cell
GetValue_RowIdxIsCell(val, o, c, idx) ==
    IF StartsWith(val, ITEM_DOT)
    THEN LET key == From(val, 5)
             got == IF o.t = "dict" /\ key \in DOMAIN o.items
                    THEN o.items[key]
                    ELSE GetAttr(o, key)
         IN IF got.t = "callable" THEN Call(got) ELSE got
    ELSE IF val = ITEM THEN o
    ELSE c

\* the body of the try block, lines 116-128: the value, or Raises when it raised
GetValue(val, o, c, idx) ==
    IF StartsWith(val, ITEM_DOT)
    THEN LET key == From(val, 5)
             got == IF o.t = "dict" /\ key \in DOMAIN o.items
                    THEN o.items[key]
                    ELSE GetAttr(o, key)
         IN IF got.t = "callable" THEN Call(got) ELSE got
    ELSE IF val = ITEM THEN o
    ELSE IF val = ROW_IDX THEN idx
    ELSE c

\* TryValue whose except clause gives None, which str() then spells out
TryValue_ExceptGivesNone(val, o, c, idx) ==
    LET got == GetValue(val, o, c, idx)
    IN IF got.t = "raises" THEN None
       ELSE IF got.t = "none" THEN EmptyStr
       ELSE got

\* lines 115-132: None becomes "", and so does anything that raised
TryValue(val, o, c, idx) ==
    LET got == GetValue(val, o, c, idx)
    IN IF got.t = "raises" THEN EmptyStr
       ELSE IF got.t = "none" THEN EmptyStr
       ELSE got

\* line 101: tag = self.tag.replace("{{ ", "{{").replace(" }}", "}}")
Normalize(t) == Replace(Replace(t, OPEN \o <<" ">>, OPEN), <<" ">> \o CLOSE, CLOSE)

\* lines 137-138: do the two str.index calls of the if branch succeed
IfLocated(t, val) ==
    Find(t, IfMarker(val)) # -1 /\ Find(t, EndifMarker) # -1

\* IfReduce whose falsy branch forgets the {{endif}} left behind the else part
IfReduce_EndifLeft(t, val, v) ==
    LET start == Find(t, IfMarker(val))
        end == Find(t, EndifMarker) + 9
        else_idx == Find(t, ElseMarker)
        has_else == else_idx # -1 /\ else_idx < end
    IN IF Truthy(v)
       THEN IF has_else
            THEN ReplaceFirst(UpTo(t, else_idx) \o From(t, end), IfMarker(val), <<>>)
            ELSE ReplaceFirst(ReplaceFirst(t, IfMarker(val), <<>>), EndifMarker, <<>>)
       ELSE IF has_else
            THEN UpTo(t, start) \o From(t, else_idx + 8)
            ELSE UpTo(t, start) \o From(t, end)

\* lines 137-160: the tag with the if block reduced by the truth of v
\* (else_idx is float("inf") when there is no {{else}}: never below end)
IfReduce(t, val, v) ==
    LET start == Find(t, IfMarker(val))
        end == Find(t, EndifMarker) + 9
        else_idx == Find(t, ElseMarker)
        has_else == else_idx # -1 /\ else_idx < end
    IN IF Truthy(v)
       THEN IF has_else
            THEN ReplaceFirst(UpTo(t, else_idx) \o From(t, end), IfMarker(val), <<>>)
            ELSE ReplaceFirst(ReplaceFirst(t, IfMarker(val), <<>>), EndifMarker, <<>>)
       ELSE IF has_else
            THEN ReplaceFirst(UpTo(t, start) \o From(t, else_idx + 8), EndifMarker, <<>>)
            ELSE UpTo(t, start) \o From(t, end)

\* line 163: tag = tag.replace("{{" + val + "}}", str(value))
SetValue(t, val, v) == Replace(t, Marker(val), PyStr(v))

\* the token the for loop is at
Val == replace_vals[pos]
IsIfCond(tok) == StartsWith(tok, IF_)
IsSkipped(tok) == tok = ENDIF \/ tok = ELSE_

---------------------------------------------------------------------------
(* Column.parse_tag: the steps *)

\* lines 101-103
ParseTagCall ==
    /\ pc = "call"
    /\ tag' = Normalize(self_tag)
    /\ replace_vals' = FindAll(Normalize(self_tag))
    /\ pos' = 1
    /\ pc' = "loop"
    /\ UNCHANGED <<self_tag, obj, cell, row_idx, value>>
    /\ UNCHANGED <<colVars, ordVars, restVars>>

\* lines 105-106: else and endif are not values
LoopSkip ==
    /\ pc = "loop"
    /\ pos <= Len(replace_vals)
    /\ IsSkipped(Val)
    /\ pos' = pos + 1
    /\ UNCHANGED <<self_tag, obj, cell, row_idx, tag, replace_vals, value, pc>>
    /\ UNCHANGED <<colVars, ordVars, restVars>>

\* lines 108-132 and 162-163, a token that is no if condition
LoopValue ==
    /\ pc = "loop"
    /\ pos <= Len(replace_vals)
    /\ ~IsSkipped(Val) /\ ~IsIfCond(Val)
    /\ value' = TryValue(Val, obj, cell, row_idx)
    /\ tag' = SetValue(tag, Val, value')
    /\ pos' = pos + 1
    /\ UNCHANGED <<self_tag, obj, cell, row_idx, replace_vals, pc>>
    /\ UNCHANGED <<colVars, ordVars, restVars>>

\* lines 108-163, an if condition whose markers are found
LoopIf ==
    /\ pc = "loop"
    /\ pos <= Len(replace_vals)
    /\ IsIfCond(Val)
    /\ LET val == From(Val, 3)
       IN /\ IfLocated(tag, val)
          /\ value' = TryValue(val, obj, cell, row_idx)
          /\ tag' = SetValue(IfReduce(tag, val, value'), val, value')
    /\ pos' = pos + 1
    /\ UNCHANGED <<self_tag, obj, cell, row_idx, replace_vals, pc>>
    /\ UNCHANGED <<colVars, ordVars, restVars>>

\* lines 137-138: str.index raises ValueError, which nothing catches
LoopIfRaise ==
    /\ pc = "loop"
    /\ pos <= Len(replace_vals)
    /\ IsIfCond(Val)
    /\ LET val == From(Val, 3)
       IN /\ ~IfLocated(tag, val)
          /\ value' = TryValue(val, obj, cell, row_idx)
    /\ pc' = "raised"
    /\ UNCHANGED <<self_tag, obj, cell, row_idx, tag, replace_vals, pos>>
    /\ UNCHANGED <<colVars, ordVars, restVars>>

\* line 165
ParseTagReturn ==
    /\ pc = "loop"
    /\ pos > Len(replace_vals)
    /\ pc' = "done"
    /\ UNCHANGED <<self_tag, obj, cell, row_idx, tag, replace_vals, pos, value>>
    /\ UNCHANGED <<colVars, ordVars, restVars>>

---------------------------------------------------------------------------
(* the templates, rows and cells parse_tag is run on *)

MaxPieces == 2

A_KEY == <<"a">>
X == <<"x">>
ITEM_A == ITEM_DOT \o A_KEY
BOB == <<"B", "o", "b">>

\* literal text: empty, plain, and with a single-brace group as script or style has
Lits == {<<>>, <<"A">>, <<"{", "k", "}">>}

\* the conditions of a block: the cell, a row attribute, the row index
Conds == {X, ITEM_A, ROW_IDX}

\* pre {{if c}} body {{endif}} post
Block(pre, c, body, post) == pre \o IfMarker(c) \o body \o EndifMarker \o post
\* pre {{if c}} body {{else}} alt {{endif}} post
BlockElse(pre, c, body, alt, post) ==
    pre \o IfMarker(c) \o body \o ElseMarker \o alt \o EndifMarker \o post

BlockTemplates ==
    {Block(pre, c, body, post) : pre \in Lits, c \in Conds, body \in Lits, post \in Lits}
    \cup {BlockElse(l[1], c, l[2], l[3], l[4]) : l \in [1..4 -> Lits], c \in Conds}

\* the pieces free-form templates are made of: text, placeholders in both
\* spacings, block markers, a single-brace group that reads as an if, an
\* opening marker with nothing closing it
Pieces ==
    { <<"A">>, <<"{", "k", "}">>, <<"{">> \o IF_ \o X \o <<"}">>, OPEN \o <<" ">>,
      Marker(X), OPEN \o <<" ">> \o X \o <<" ">> \o CLOSE, Marker(ITEM_A), Marker(ITEM),
      Marker(ROW_IDX), IfMarker(X), IfMarker(ITEM_A), ElseMarker, EndifMarker }

RECURSIVE PieceSeqs(_)
PieceSeqs(n) ==
    IF n = 0 THEN {<<>>}
    ELSE PieceSeqs(n - 1) \cup {s \o p : s \in PieceSeqs(n - 1), p \in Pieces}

FreeTemplates == PieceSeqs(MaxPieces)

Templates == BlockTemplates \cup FreeTemplates

\* what a row holds under "a"
AValues ==
    { StrV(BOB), StrV(<<>>), BoolV(FALSE), IntV(0), None,
      Callable(StrV(BOB)), Callable(Raises) }

Rows ==
    { DictRow(A_KEY :> StrV(BOB)), DictRow(A_KEY :> IntV(0)), DictRow(NoAttrs),
      ObjectRow(NoAttrs), None }
    \cup {ObjectRow(A_KEY :> v) : v \in AValues}

Cells == {StrV(<<"V">>), None}
RowIdxs == {None, IntV(1)}

InitTag ==
    /\ self_tag \in Templates
    /\ obj \in Rows
    /\ cell \in Cells
    /\ row_idx \in RowIdxs
    /\ tag = <<>> /\ replace_vals = <<>> /\ pos = 1 /\ value = None /\ pc = "call"
    /\ ColIdle /\ OrdIdle /\ RestIdle

NextTag ==
    \/ ParseTagCall
    \/ LoopSkip
    \/ LoopValue
    \/ LoopIf
    \/ LoopIfRaise
    \/ ParseTagReturn

---------------------------------------------------------------------------
(* templates of several blocks, and values that hold template text *)

MaxBlocks == 2

\* a block: its condition and whether it has an else branch
BlockKinds == [c : {X, ITEM_A}, has_else : BOOLEAN]

\* the texts of the k-th block: "B<k>" if-branch, "C<k>" else-branch
BodyOf(k) == <<"B">> \o Digits(k)
AltOf(k) == <<"C">> \o Digits(k)

BlockText(b, k) ==
    IF b.has_else THEN BlockElse(<<>>, b.c, BodyOf(k), AltOf(k), <<>>)
    ELSE Block(<<>>, b.c, BodyOf(k), <<>>)

\* the sequences of 1..n blocks
RECURSIVE BlockSeqs(_)
BlockSeqs(n) ==
    IF n = 1 THEN {<<b>> : b \in BlockKinds}
    ELSE BlockSeqs(n - 1) \cup {Append(bs, b) : bs \in BlockSeqs(n - 1), b \in BlockKinds}

\* the blocks one after the other, "A" before each and after the last
RECURSIVE SeqText(_, _)
SeqText(bs, k) ==
    IF k > Len(bs) THEN <<"A">>
    ELSE <<"A">> \o BlockText(bs[k], k) \o SeqText(bs, k + 1)

SeqTemplates == {SeqText(bs, 1) : bs \in {s \in BlockSeqs(MaxBlocks) : Len(s) > 1}}

\* a sequence of blocks followed by an if that nothing closes
UnclosedTemplates == {SeqText(bs, 1) \o IfMarker(X) : bs \in BlockSeqs(1)}

\* two placeholders, and a placeholder followed by a block
PairText(p, q) == Marker(p) \o <<"-">> \o Marker(q)
ThenBlockText(p, c) == Marker(p) \o BlockElse(<<>>, c, BodyOf(1), AltOf(1), <<>>)

ValueTemplates ==
    {PairText(p, q) : p \in {X, ITEM_A}, q \in {X, ITEM_A}}
    \cup {ThenBlockText(p, c) : p \in {X, ITEM_A}, c \in {X, ITEM_A}}

\* values that hold template text themselves
TextValues == {StrV(<<"V">>), StrV(Marker(X)), StrV(Marker(ITEM_A)), StrV(ElseMarker),
               StrV(EndifMarker)}

TextRows == {ObjectRow(A_KEY :> v) : v \in TextValues} \cup {DictRow(A_KEY :> v) : v \in TextValues}

InitBlocks ==
    /\ \/ self_tag \in SeqTemplates \cup UnclosedTemplates /\ obj \in Rows /\ cell \in Cells
       \/ self_tag \in ValueTemplates /\ obj \in TextRows /\ cell \in TextValues
    /\ row_idx = None
    /\ tag = <<>> /\ replace_vals = <<>> /\ pos = 1 /\ value = None /\ pc = "call"
    /\ ColIdle /\ OrdIdle /\ RestIdle

---------------------------------------------------------------------------
(* Column construction (tables.py lines 34-87) *)

LOWER == <<"a", "b", "c", "d", "e", "f", "g", "h", "i", "j", "k", "l", "m",
           "n", "o", "p", "q", "r", "s", "t", "u", "v", "w", "x", "y", "z">>
UPPER == <<"A", "B", "C", "D", "E", "F", "G", "H", "I", "J", "K", "L", "M",
           "N", "O", "P", "Q", "R", "S", "T", "U", "V", "W", "X", "Y", "Z">>

IsLower(c) == \E i \in DOMAIN LOWER : LOWER[i] = c
IsUpper(c) == \E i \in DOMAIN UPPER : UPPER[i] = c
ToUpper(c) == IF IsLower(c) THEN UPPER[CHOOSE i \in DOMAIN LOWER : LOWER[i] = c] ELSE c
ToLower(c) == IF IsUpper(c) THEN LOWER[CHOOSE i \in DOMAIN UPPER : UPPER[i] = c] ELSE c

\* str.lower()
StrLower(s) == [i \in DOMAIN s |-> ToLower(s[i])]

\* str.title(): a cased character is upper-cased when the character before it
\* is not cased and lower-cased when it is
StrTitle(s) ==
    [i \in DOMAIN s |->
        LET after_cased == i > 1 /\ (IsLower(s[i - 1]) \/ IsUpper(s[i - 1]))
        IN IF after_cased THEN ToLower(s[i]) ELSE ToUpper(s[i])]

\* str(name).replace("_", " ").title()
DisplayOf(name) == StrV(StrTitle(Replace(PyStr(name), <<"_">>, <<" ">>)))

\* dict.update: the keys of d are set, the others kept
Update(col, d) ==
    [k \in DOMAIN col \cup DOMAIN d |-> IF k \in DOMAIN d THEN d[k] ELSE col[k]]

\* self[key] = v
Set(col, key, v) == [k \in DOMAIN col \cup {key} |-> IF k = key THEN v ELSE col[k]]

\* lines 62-66 and 83-87: display_name and order_by from a name that is there
BackfillNamed(col) ==
    LET name == col["name"]
        c1 == IF col["display_name"] = None /\ name # None
              THEN Set(col, "display_name", DisplayOf(name)) ELSE col
    IN IF c1["order_by"] = None /\ name # None
       THEN Set(c1, "order_by", StrV(PyStr(name))) ELSE c1

\* Column.from_dict, lines 58-66
from_dict(col, d) == BackfillNamed(Update(col, d))

\* from_list that takes the order_by from the position of the display name
from_list_Shifted(col, li) ==
    LET n == Len(li)
        c1 == IF n > 0 THEN Set(col, "name", li[1]) ELSE col
        c2 == IF n > 1 THEN Set(c1, "display_name", li[2]) ELSE c1
        c3 == IF n > 2 THEN Set(c2, "order_by", li[2]) ELSE c2
        c4 == IF n > 3 THEN Set(c3, "tag", li[4]) ELSE c3
        c5 == IF n > 4 THEN Set(c4, "class_names", li[5]) ELSE c4
        c6 == IF n > 5 THEN Set(c5, "style", li[6]) ELSE c5
    IN BackfillNamed(c6)

\* Column.from_list, lines 68-87 (li[0] is li[1] here: sequences start at 1)
from_list(col, li) ==
    LET n == Len(li)
        c1 == IF n > 0 THEN Set(col, "name", li[1]) ELSE col
        c2 == IF n > 1 THEN Set(c1, "display_name", li[2]) ELSE c1
        c3 == IF n > 2 THEN Set(c2, "order_by", li[3]) ELSE c2
        c4 == IF n > 3 THEN Set(c3, "tag", li[4]) ELSE c3
        c5 == IF n > 4 THEN Set(c4, "class_names", li[5]) ELSE c4
        c6 == IF n > 5 THEN Set(c5, "style", li[6]) ELSE c5
    IN BackfillNamed(c6)

\* lines 36-46: the dict a Column starts as; a mapping or a list is no name
ListArg(li) == [t |-> "list", li |-> li]
IsMapping(a) == a.t = "dict"
IsList(a) == a.t = "list"

NewColumn(name, display_name, order_by) ==
    [k \in {"name", "display_name", "order_by", "tag", "class_names", "style", "annotate"} |->
        CASE k = "name" -> IF IsMapping(name) \/ IsList(name) THEN None ELSE name
          [] k = "display_name" -> display_name
          [] k = "order_by" -> order_by
          [] k = "class_names" -> EmptyStr
          [] k = "style" -> EmptyStr
          [] OTHER -> None]

\* lines 53-56: what is still None is taken from str(name), whatever name is
Backfill(col) ==
    LET c1 == IF col["display_name"] = None
              THEN Set(col, "display_name", DisplayOf(col["name"])) ELSE col
    IN IF c1["order_by"] = None
       THEN Set(c1, "order_by", StrV(PyStr(c1["name"]))) ELSE c1

\* lines 35-46
ColumnCall ==
    /\ cpc = "call"
    /\ column' = NewColumn(arg_name, kw_display, kw_order)
    /\ cpc' = IF IsMapping(arg_name) THEN "from_dict"
              ELSE IF IsList(arg_name) THEN "from_list"
              ELSE "backfill"
    /\ UNCHANGED <<arg_name, kw_display, kw_order>>
    /\ UNCHANGED <<tagVars, ordVars, restVars>>

\* lines 48-49
ColumnFromDict ==
    /\ cpc = "from_dict"
    /\ column' = from_dict(column, arg_name.items)
    /\ cpc' = "backfill"
    /\ UNCHANGED <<arg_name, kw_display, kw_order>>
    /\ UNCHANGED <<tagVars, ordVars, restVars>>

\* lines 50-51
ColumnFromList ==
    /\ cpc = "from_list"
    /\ column' = from_list(column, arg_name.li)
    /\ cpc' = "backfill"
    /\ UNCHANGED <<arg_name, kw_display, kw_order>>
    /\ UNCHANGED <<tagVars, ordVars, restVars>>

\* lines 53-56
ColumnBackfill ==
    /\ cpc = "backfill"
    /\ column' = Backfill(column)
    /\ cpc' = "done"
    /\ UNCHANGED <<arg_name, kw_display, kw_order>>
    /\ UNCHANGED <<tagVars, ordVars, restVars>>

---------------------------------------------------------------------------
(* the arguments Column is constructed with *)

MaxListLen == 7

Names == {<<"a", "_", "b">>, <<"i", "d">>, <<"a", "B", "1", "c">>}
GivenDisplay == StrV(<<"D", "i", "s", " ", "N">>)
GivenOrder == StrV(<<"-", "o", "b">>)
GivenSort == StrV(<<"s", "_", "k">>)
KwDisplay == StrV(<<"K", "w">>)
KwOrder == StrV(<<"k", "o">>)

\* a mapping from a set of <<key, value>> pairs
DictOf(pairs) ==
    [k \in {p[1] : p \in pairs} |-> (CHOOSE p \in pairs : p[1] = k)[2]]

\* a key may be absent, None or given
Opt(key, given) == {{}} \cup {{<<key, v>>} : v \in {None} \cup given}

Mappings ==
    { DictRow(DictOf(n \cup d \cup o \cup s)) :
        n \in Opt("name", {StrV(x) : x \in Names}),
        d \in Opt("display_name", {GivenDisplay}),
        o \in Opt("order_by", {GivenOrder}),
        s \in {{}, {<<"sort", GivenSort>>}} }

\* [name, display_name, order_by, tag, class_names, style, and entries past them]
FullList(name, d, o, n) ==
    [i \in 1..n |->
        CASE i = 1 -> name
          [] i = 2 -> d
          [] i = 3 -> o
          [] i = 4 -> StrV(Marker(X))
          [] i = 5 -> StrV(<<"c">>)
          [] i = 6 -> StrV(<<"s">>)
          [] OTHER -> StrV(<<"e">>)]

Lists ==
    { ListArg(FullList(name, d, o, n)) :
        name \in {None} \cup {StrV(x) : x \in Names},
        d \in {None, GivenDisplay}, o \in {None, GivenOrder}, n \in 0..MaxListLen }

BareNames == {StrV(x) : x \in Names}

InitColumn ==
    /\ arg_name \in BareNames \cup Lists \cup Mappings
    /\ kw_display \in {None, KwDisplay}
    /\ kw_order \in {None, KwOrder}
    /\ column = NoAttrs /\ cpc = "call"
    /\ TagIdle /\ OrdIdle /\ RestIdle

NextColumn ==
    \/ ColumnCall
    \/ ColumnFromDict
    \/ ColumnFromList
    \/ ColumnBackfill

---------------------------------------------------------------------------
(* BaseTable.get_ordering and _get_special_ordering (tables.py lines 251-286) *)

\* s.split(sep)
RECURSIVE Split(_, _)
Split(s, sep) ==
    LET i == Find(s, sep)
    IN IF i = -1 THEN <<s>>
       ELSE <<UpTo(s, i)>> \o Split(From(s, i + Len(sep)), sep)

COMMA == <<",">>
MINUS == <<"-">>
DUNDER == <<"_", "_">>

\* a model of the registry, and a field of it
Model(name) == [t |-> "model", name |-> name]
\* target: the name of the model a relation points to, "" for a plain field
Field(kind, target) == [t |-> "field", kind |-> kind, target |-> target]

\* the classes a field class derives from, itself included
Bases(kind) ==
    CASE kind \in {"EmailField", "SlugField", "URLField"} -> {kind, "CharField"}
      [] OTHER -> {kind}

\* lines 280-282: the classes of the isinstance test
TextClasses ==
    {"CharField", "TextField", "EmailField", "FileField", "FilePathField",
     "SlugField", "URLField", "UUIDField", "GenericIPAddressField"}

IsInstance(field, classes) == Bases(field.kind) \cap classes # {}

\* model._meta.get_field(name): Raises stands for FieldDoesNotExist, and for
\* the AttributeError of None._meta
GetField(model, name) ==
    IF model.t = "model" /\ name \in DOMAIN apps[model.name]
    THEN apps[model.name][name]
    ELSE Raises

\* lines 269-275: the field a path leads to, Raises when a hop fails
\* (sub.target_field is an AttributeError on a field that is no relation)
RECURSIVE WalkField(_, _)
WalkField(model, sub_col) ==
    IF Contains(sub_col, DUNDER)
    THEN LET i == Find(sub_col, DUNDER)
             sub_name == UpTo(sub_col, i)
             rest == From(sub_col, i + 2)
             sub == GetField(model, sub_name)
         IN IF sub.t = "raises" THEN Raises
            ELSE IF sub.target = "" THEN Raises
            ELSE WalkField(Model(sub.target), rest)
    ELSE GetField(model, sub_col)

\* Upper(col), and Upper(col).desc()
UpperKey(col, desc) == [t |-> "Upper", expr |-> col, desc |-> desc]

\* _get_special_ordering that builds the key on the last segment of the path
special_ordering_LastSegment(sort_name) ==
    LET negative == StartsWith(sort_name, MINUS)
        col == IF negative THEN From(sort_name, 1) ELSE sort_name
        segs == Split(col, DUNDER)
        field == WalkField(meta_model, col)
    IN IF field.t = "raises" THEN StrV(sort_name)
       ELSE IF IsInstance(field, TextClasses)
            THEN UpperKey(segs[Len(segs)], negative)
            ELSE StrV(sort_name)

\* _get_special_ordering that gives the path back without its "-" when the
\* lookup fails
special_ordering_FallbackStripped(sort_name) ==
    LET negative == StartsWith(sort_name, MINUS)
        col == IF negative THEN From(sort_name, 1) ELSE sort_name
        field == WalkField(meta_model, col)
    IN IF field.t = "raises" THEN StrV(col)
       ELSE IF IsInstance(field, TextClasses)
            THEN UpperKey(col, negative)
            ELSE StrV(sort_name)

\* BaseTable._get_special_ordering, lines 255-286
special_ordering(sort_name) ==
    LET negative == StartsWith(sort_name, MINUS)
        col == IF negative THEN From(sort_name, 1) ELSE sort_name
        field == WalkField(meta_model, col)
    IN IF field.t = "raises" THEN StrV(sort_name)
       ELSE IF IsInstance(field, TextClasses)
            THEN UpperKey(col, negative)
            ELSE StrV(sort_name)

\* line 253: order_by.split(',')
GetOrderingCall ==
    /\ opc = "call"
    /\ tokens' = Split(order_arg, COMMA)
    /\ ordering' = <<>>
    /\ opc' = "loop"
    /\ UNCHANGED <<apps, meta_model, order_arg>>
    /\ UNCHANGED <<tagVars, colVars, restVars>>

\* line 253: the generator gives the next cls._get_special_ordering(o)
GetOrderingNext ==
    /\ opc = "loop"
    /\ Len(ordering) < Len(tokens)
    /\ ordering' = Append(ordering, special_ordering(tokens[Len(ordering) + 1]))
    /\ UNCHANGED <<apps, meta_model, order_arg, tokens, opc>>
    /\ UNCHANGED <<tagVars, colVars, restVars>>

\* line 253: the tuple is complete
GetOrderingReturn ==
    /\ opc = "loop"
    /\ Len(ordering) = Len(tokens)
    /\ opc' = "done"
    /\ UNCHANGED <<apps, meta_model, order_arg, tokens, ordering>>
    /\ UNCHANGED <<tagVars, colVars, restVars>>

---------------------------------------------------------------------------
(* the models and sort specifications get_ordering is run on *)

MaxTokens == 2

TITLE == <<"t", "i", "t", "l", "e">>
PAGES == <<"p", "a", "g", "e", "s">>
AUTHOR == <<"a", "u", "t", "h", "o", "r">>
NAME == <<"n", "a", "m", "e">>
BOGUS == <<"b", "o", "g", "u", "s">>
ID == <<"i", "d">>

\* the kinds the title of a book and the name of an author are declared with
Kinds ==
    TextClasses \cup {"IntegerField", "BooleanField", "DateField", "DecimalField"}

\* Book(id, title, pages, author -> Author), Author(id, name)
Registry(kind) ==
    [m \in {"Book", "Author"} |->
        IF m = "Book"
        THEN (ID :> Field("AutoField", "")) @@ (TITLE :> Field(kind, ""))
             @@ (PAGES :> Field("IntegerField", ""))
             @@ (AUTHOR :> Field("ForeignKey", "Author"))
        ELSE (ID :> Field("AutoField", "")) @@ (NAME :> Field(kind, ""))]

Paths ==
    { TITLE, PAGES, AUTHOR, AUTHOR \o DUNDER \o NAME,
      BOGUS, BOGUS \o DUNDER \o TITLE, PAGES \o DUNDER \o TITLE,
      AUTHOR \o DUNDER \o BOGUS }

SortTokens == Paths \cup {MINUS \o p : p \in Paths}

\* the specifications of n tokens, joined by ","
RECURSIVE SortSpecs(_)
SortSpecs(n) ==
    IF n = 1 THEN SortTokens
    ELSE {s \o COMMA \o tok : s \in SortSpecs(n - 1), tok \in SortTokens}

OrderArgs == {<<>>} \cup UNION {SortSpecs(n) : n \in 1..MaxTokens}

InitOrdering ==
    /\ \/ meta_model = Model("Book") /\ apps \in {Registry(k) : k \in Kinds}
       \/ meta_model = None /\ apps = Registry("CharField")
    /\ order_arg \in OrderArgs
    /\ tokens = <<>> /\ ordering = <<>> /\ opc = "call"
    /\ TagIdle /\ ColIdle /\ RestIdle

NextOrdering ==
    \/ GetOrderingCall
    \/ GetOrderingNext
    \/ GetOrderingReturn

---------------------------------------------------------------------------
(* get_all_model_fields and BaseTable.get_columns (tables.py lines 26-31, 316-356) *)

\* Column(name, display_name, order_by): the dict a finished constructor leaves
\* (lines 35-56)
Column(name, display_name, order_by) ==
    LET c0 == NewColumn(name, display_name, order_by)
        c1 == IF IsMapping(name) THEN from_dict(c0, name.items)
              ELSE IF IsList(name) THEN from_list(c0, name.li)
              ELSE c0
    IN Backfill(c1)

\* a field of model._meta: remote is field.remote_field, None on a field
\* that is no relation
Remote(parent_link) == [t |-> "rel", parent_link |-> parent_link]
ModelField(name, verbose_name, kind, creation_counter, remote) ==
    [t |-> "field", name |-> name, verbose_name |-> verbose_name, kind |-> kind,
     creation_counter |-> creation_counter, remote |-> remote]

\* sorted(fields): Field.__lt__ compares creation_counter; the sort is stable
RECURSIVE Sorted(_)
Sorted(fs) ==
    IF fs = <<>> THEN <<>>
    ELSE LET i == CHOOSE k \in DOMAIN fs :
                      /\ \A j \in DOMAIN fs :
                            fs[k].creation_counter <= fs[j].creation_counter
                      /\ \A j \in 1..(k - 1) :
                            fs[j].creation_counter # fs[k].creation_counter
         IN <<fs[i]>> \o Sorted(SubSeq(fs, 1, i - 1) \o SubSeq(fs, i + 1, Len(fs)))

\* getattr(remote_field(f), 'parent_link', False)
ParentLink(f) == IF f.remote = None THEN FALSE ELSE f.remote.parent_link

\* line 31: the fields a column is derived for
IsDerivable(f) == ~IsInstance(f, {"AutoField"}) /\ ~ParentLink(f)

\* line 29
FieldColumn(f) ==
    DictRow(Column(StrV(f.name), StrV(StrTitle(f.verbose_name)), StrV(f.name)))

\* get_all_model_fields with the sorted() lost: many-to-many fields come last
get_all_model_fields_Unsorted(opts) ==
    LET all == SelectSeq(opts.fields \o opts.many_to_many, IsDerivable)
    IN [i \in DOMAIN all |-> FieldColumn(all[i])]

\* get_all_model_fields, lines 26-31: a list of Column objects (dicts)
get_all_model_fields(opts) ==
    LET all == SelectSeq(Sorted(opts.fields \o opts.many_to_many), IsDerivable)
    IN [i \in DOMAIN all |-> FieldColumn(all[i])]

\* a dict given as Meta.fields: items by key, with the order of the keys
FieldsDict(items, order) == [t |-> "dict", items |-> items, order |-> order]

\* `not fields` of a list or a dict; None is tested before it
IsEmpty(f) == IF IsList(f) THEN f.li = <<>> ELSE DOMAIN f.items = {}

\* x in exclude, exclude a list
InList(x, li) == \E i \in DOMAIN li : li[i] = x

\* the assert of lines 330-331 with `exclude` tested for emptiness
AssertionHolds_ExcludeEmpty(f, e) == ~(f = None /\ e = ListArg(<<>>))

\* lines 330-331: assert not (fields is None and exclude is None)
AssertionHolds(f, e) == ~(f = None /\ e = None)

\* lines 322-328: no model, an empty OrderedDict is returned
GetColumnsNoModel ==
    /\ dpc = "get_columns"
    /\ ~Truthy(meta_model)
    /\ flds' = <<>>
    /\ dpc' = "return"
    /\ UNCHANGED <<meta_fields, meta_exclude, meta_annotations, model_opts, fields,
                   exclude, fpos, base_columns, annotations>>
    /\ UNCHANGED outsideDefine

\* lines 330-331: the AssertionError leaves TableMetaclass.__new__, the class
\* statement fails
GetColumnsAssert ==
    /\ dpc = "get_columns"
    /\ Truthy(meta_model)
    /\ ~AssertionHolds(meta_fields, meta_exclude)
    /\ dpc' = "raised"
    /\ UNCHANGED <<meta_fields, meta_exclude, meta_annotations, model_opts, fields,
                   exclude, flds, fpos, base_columns, annotations>>
    /\ UNCHANGED outsideDefine

\* lines 333-339 (and 348): the entries to resolve and the names to leave out
GetColumnsResolve ==
    /\ dpc = "get_columns"
    /\ Truthy(meta_model)
    /\ AssertionHolds(meta_fields, meta_exclude)
    /\ fields' = IF meta_fields = None \/ IsEmpty(meta_fields)
                 THEN ListArg(get_all_model_fields(model_opts))
                 ELSE meta_fields
    /\ exclude' = IF meta_exclude = None \/ IsEmpty(meta_exclude)
                  THEN ListArg(<<>>) ELSE meta_exclude
    /\ flds' = <<>>
    /\ fpos' = 1
    /\ dpc' = "loop"
    /\ UNCHANGED <<meta_fields, meta_exclude, meta_annotations, model_opts,
                   base_columns, annotations>>
    /\ UNCHANGED outsideDefine

\* lines 340-343: an entry of a list, any of the three shapes of a column spec
GetColumnsListEntry ==
    /\ dpc = "loop"
    /\ IsList(fields)
    /\ fpos <= Len(fields.li)
    /\ LET col == Column(fields.li[fpos], None, None)
       IN flds' = IF col["name"] # None /\ ~InList(col["name"], exclude.li)
                  THEN Append(flds, col) ELSE flds
    /\ fpos' = fpos + 1
    /\ UNCHANGED <<meta_fields, meta_exclude, meta_annotations, model_opts, fields,
                   exclude, base_columns, annotations, dpc>>
    /\ UNCHANGED outsideDefine

\* lines 349-353: an item of a dict, the key and the override spec under it
GetColumnsDictEntry ==
    /\ dpc = "loop"
    /\ IsMapping(fields)
    /\ fpos <= Len(fields.order)
    /\ LET f == StrV(fields.order[fpos])
           lookups == fields.items[fields.order[fpos]]
           col == from_dict(Column(f, None, None), lookups.items)
       IN flds' = IF col["name"] # None /\ ~InList(f, exclude.li)
                  THEN Append(flds, col) ELSE flds
    /\ fpos' = fpos + 1
    /\ UNCHANGED <<meta_fields, meta_exclude, meta_annotations, model_opts, fields,
                   exclude, base_columns, annotations, dpc>>
    /\ UNCHANGED outsideDefine

\* lines 345 and 354-356: the loop is over, flds is returned
GetColumnsReturn ==
    /\ dpc = "loop"
    /\ fpos > (IF IsList(fields) THEN Len(fields.li) ELSE Len(fields.order))
    /\ dpc' = "return"
    /\ UNCHANGED <<meta_fields, meta_exclude, meta_annotations, model_opts, fields,
                   exclude, flds, fpos, base_columns, annotations>>
    /\ UNCHANGED outsideDefine

\* TableMetaclass.__new__, lines 199-202: the class attributes are set
\* (copy.deepcopy gives an equal value that shares nothing)
MetaclassReturn ==
    /\ dpc = "return"
    /\ base_columns' = flds
    /\ annotations' = meta_annotations
    /\ dpc' = "defined"
    /\ UNCHANGED <<meta_fields, meta_exclude, meta_annotations, model_opts, fields,
                   exclude, flds, fpos>>
    /\ UNCHANGED outsideDefine

---------------------------------------------------------------------------
(* the Table definitions get_columns is run on *)

MaxEntries == 2

EMAIL == <<"e", "m", "a", "i", "l">>
FIRST_NAME == <<"f", "i", "r", "s", "t", "_", "n", "a", "m", "e">>
COURSES == <<"c", "o", "u", "r", "s", "e", "s">>
GRADE == <<"g", "r", "a", "d", "e">>
PERSON_PTR == <<"p", "e", "r", "s", "o", "n", "_", "p", "t", "r">>

\* Person(id, name, email): email is declared with verbose_name "e-mail address"
PersonOpts ==
    [fields |-> << ModelField(ID, ID, "AutoField", -1, None),
                   ModelField(NAME, NAME, "CharField", 1, None),
                   ModelField(EMAIL, <<"e", "-", "m", "a", "i", "l", " ", "a", "d", "d",
                                       "r", "e", "s", "s">>, "EmailField", 2, None) >>,
     many_to_many |-> <<>>]

\* Student(Person): first_name, courses (many-to-many), grade, declared in
\* that order; the parent link person_ptr is created by the model class
StudentOpts ==
    [fields |-> << ModelField(PERSON_PTR, <<"p", "e", "r", "s", "o", "n", " ", "p", "t", "r">>,
                              "OneToOneField", -2, Remote(TRUE)),
                   ModelField(FIRST_NAME, <<"f", "i", "r", "s", "t", " ", "n", "a", "m", "e">>,
                              "CharField", 3, None),
                   ModelField(GRADE, GRADE, "ForeignKey", 5, Remote(FALSE)) >>,
     many_to_many |-> << ModelField(COURSES, COURSES, "ManyToManyField", 4, Remote(FALSE)) >>]

ModelOpts == {PersonOpts, StudentOpts}

\* the column specs a list holds: a bare name, a list, two mappings, and two
\* specs that give no name
Entries ==
    { StrV(NAME), ListArg(<<StrV(ID), GivenDisplay>>),
      DictRow(DictOf({<<"name", StrV(EMAIL)>>, <<"display_name", GivenDisplay>>})),
      DictRow(DictOf({<<"display_name", GivenDisplay>>})), ListArg(<<>>) }

RECURSIVE EntryLists(_)
EntryLists(n) ==
    IF n = 0 THEN {<<>>}
    ELSE EntryLists(n - 1) \cup {Append(li, e) : li \in EntryLists(n - 1), e \in Entries}

\* the override specs a dict holds under a name
Lookups ==
    { DictRow(NoAttrs), DictRow(DictOf({<<"display_name", GivenDisplay>>})),
      DictRow(DictOf({<<"name", StrV(ID)>>})), DictRow(DictOf({<<"name", None>>})) }

FieldsDicts ==
    { FieldsDict(NoAttrs, <<>>) }
    \cup { FieldsDict(k :> l, <<k>>) : k \in {NAME, ID}, l \in Lookups }
    \cup { FieldsDict((o[1] :> l1) @@ (o[2] :> l2), o) :
             o \in {<<NAME, ID>>, <<ID, NAME>>}, l1 \in Lookups, l2 \in Lookups }

MetaFields == {None} \cup {ListArg(li) : li \in EntryLists(MaxEntries)} \cup FieldsDicts

MetaExcludes == {None, ListArg(<<>>), ListArg(<<StrV(ID)>>), ListArg(<<StrV(NAME)>>)}

\* Meta.annotations: unset ({}), or one expression under a name
Annotations == {NoAttrs, (<<"m">> :> Expr("Sum")) @@ (<<"n">> :> Expr("Avg"))}

InitDefine ==
    /\ \/ meta_model = None /\ model_opts = None
       \/ meta_model = Model("Person") /\ model_opts = PersonOpts
       \/ meta_model = Model("Student") /\ model_opts = StudentOpts
    /\ meta_fields \in MetaFields
    /\ meta_exclude \in MetaExcludes
    /\ meta_annotations \in Annotations
    /\ fields = None /\ exclude = None /\ flds = <<>> /\ fpos = 1
    /\ base_columns = <<>> /\ annotations = NoAttrs /\ dpc = "get_columns"
    /\ apps = NoAttrs /\ order_arg = <<>> /\ tokens = <<>> /\ ordering = <<>> /\ opc = "idle"
    /\ TagIdle /\ ColIdle /\ RndIdle /\ InstIdle /\ SftIdle

NextDefine ==
    \/ GetColumnsNoModel
    \/ GetColumnsAssert
    \/ GetColumnsResolve
    \/ GetColumnsListEntry
    \/ GetColumnsDictEntry
    \/ GetColumnsReturn
    \/ MetaclassReturn

---------------------------------------------------------------------------
(* BaseTable.render (tables.py lines 358-380) *)

\* mark_safe(s): the same text, marked
Safe(s) == [t |-> "safe", s |-> s]

\* lines 366-369: obj.get(col.name, "") of a dict, getattr(obj, col.name, "")
\* of anything else
CellOf(o, name) ==
    IF o.t = "dict"
    THEN (IF name \in DOMAIN o.items THEN o.items[name] ELSE EmptyStr)
    ELSE LET got == GetAttr(o, name) IN IF got = Raises THEN EmptyStr ELSE got

\* hasattr(self, "render_" + col.name)
HasHook(col, hs) == PyStr(col["name"]) \in hs

\* the branch taken when a render_<name> method is looked for before the tag
RenderPath_HookFirst(col, hs) ==
    IF HasHook(col, hs) THEN "hook"
    ELSE IF Truthy(col["tag"]) THEN "tag"
    ELSE "str"

\* lines 374-380: the branch of the if / elif / else
RenderPath(col, hs) ==
    IF Truthy(col["tag"]) THEN "tag"
    ELSE IF HasHook(col, hs) THEN "hook"
    ELSE "str"

\* lines 366-371: the cell is looked up, and called when it is callable; an
\* exception of the call leaves render
RenderCell ==
    /\ rpc = "call"
    /\ LET got == CellOf(r_obj, PyStr(r_col["name"]))
           c == IF got.t = "callable" THEN Call(got) ELSE got
       IN IF c = Raises
          THEN rpc' = "raised" /\ UNCHANGED r_cell
          ELSE rpc' = "choose" /\ r_cell' = c
    /\ UNCHANGED <<r_obj, r_col, r_row_idx, hooks, hook_ret, hook_calls, result>>
    /\ UNCHANGED <<tagVars, outsideRender>>

\* lines 374-375: col.parse_tag(obj, cell, row_idx=row_idx) is called
RenderTag ==
    /\ rpc = "choose"
    /\ RenderPath(r_col, hooks) = "tag"
    /\ self_tag' = r_col["tag"].s
    /\ obj' = r_obj /\ cell' = r_cell /\ row_idx' = r_row_idx
    /\ pc' = "call"
    /\ rpc' = "parse_tag"
    /\ UNCHANGED <<tag, replace_vals, pos, value>>
    /\ UNCHANGED <<r_obj, r_col, r_row_idx, r_cell, hooks, hook_ret, hook_calls, result>>
    /\ UNCHANGED outsideRender

\* line 375: mark_safe of what parse_tag returned
RenderTagReturn ==
    /\ rpc = "parse_tag"
    /\ pc = "done"
    /\ result' = Safe(tag)
    /\ rpc' = "done"
    /\ UNCHANGED <<r_obj, r_col, r_row_idx, r_cell, hooks, hook_ret, hook_calls>>
    /\ UNCHANGED <<tagVars, outsideRender>>

\* line 375: an exception of parse_tag leaves render
RenderTagRaise ==
    /\ rpc = "parse_tag"
    /\ pc = "raised"
    /\ rpc' = "raised"
    /\ UNCHANGED <<r_obj, r_col, r_row_idx, r_cell, hooks, hook_ret, hook_calls, result>>
    /\ UNCHANGED <<tagVars, outsideRender>>

\* lines 377-378: render_<name>(obj, cell, row_idx=row_idx)
RenderHook ==
    /\ rpc = "choose"
    /\ RenderPath(r_col, hooks) = "hook"
    /\ hook_calls' = Append(hook_calls, [obj |-> r_obj, cell |-> r_cell, row_idx |-> r_row_idx])
    /\ result' = Safe(hook_ret)
    /\ rpc' = "done"
    /\ UNCHANGED <<r_obj, r_col, r_row_idx, r_cell, hooks, hook_ret>>
    /\ UNCHANGED <<tagVars, outsideRender>>

\* lines 379-380: mark_safe(str(cell))
RenderStr ==
    /\ rpc = "choose"
    /\ RenderPath(r_col, hooks) = "str"
    /\ result' = Safe(PyStr(r_cell))
    /\ rpc' = "done"
    /\ UNCHANGED <<r_obj, r_col, r_row_idx, r_cell, hooks, hook_ret, hook_calls>>
    /\ UNCHANGED <<tagVars, outsideRender>>

---------------------------------------------------------------------------
(* the rows, columns and tables render is run on *)

B_KEY == <<"b">>

\* the tags of a column: none, empty, a placeholder, a block with an else
\* branch, the row index, an if that nothing closes
ColumnTags ==
    { None, EmptyStr, StrV(Marker(X) \o <<"!">>),
      StrV(BlockElse(<<>>, X, <<"Y">>, Marker(ITEM_A), <<>>)),
      StrV(Marker(ROW_IDX)), StrV(IfMarker(X)) }

\* Column(name, tag=tag)
TagColumn(name, t) == Set(Column(StrV(name), None, None), "tag", t)

RenderColumns == {TagColumn(A_KEY, t) : t \in ColumnTags} \cup {TagColumn(B_KEY, None)}

InitRender ==
    /\ r_obj \in Rows
    /\ r_col \in RenderColumns
    /\ r_row_idx \in RowIdxs
    /\ hooks \in {{}, {A_KEY, B_KEY}}
    /\ hook_ret = <<"<", "b", ">">>
    /\ r_cell = None /\ hook_calls = <<>> /\ result = None /\ rpc = "call"
    /\ TagIdle /\ ColIdle /\ OrdIdle /\ ClsIdle /\ InstIdle /\ SftIdle

NextRender ==
    \/ RenderCell
    \/ RenderTag
    \/ RenderTagReturn
    \/ RenderTagRaise
    \/ RenderHook
    \/ RenderStr
    \/ NextTag

---------------------------------------------------------------------------
(* instances of a Table class: BaseTable.__init__, get_queryset, annotate,
   sort, headers (tables.py lines 209-249, 312-314) *)

Insts == {"t1", "t2"}

\* the mutations and direct annotate() calls a run makes at most
MaxOps == 2

\* a tuple
TupleV(items) == [t |-> "tuple", items |-> items]

\* line 253: tuple(cls._get_special_ordering(o) for o in order_by.split(','))
get_ordering(order_by) ==
    LET toks == Split(order_by, COMMA)
    IN TupleV([k \in DOMAIN toks |-> special_ordering(toks[k])])

\* an instance before __init__ has run
NewTable ==
    [ipc |-> "new", columns |-> <<>>, queryset |-> <<>>, ordering |-> None, order_by |-> None,
     in_init |-> FALSE, qs |-> <<>>, annotate |-> NoAttrs, apos |-> 1, returned |-> <<>>]

\* a queryset is the calls made on the base queryset, in order: the method
\* and its argument (a name, a dict of keyword arguments, a tuple of keys)
QsCall(method, args) == [method |-> method, args |-> args]

\* lines 312-314
headers(i) == [k \in DOMAIN tables[i].columns |-> heap[tables[i].columns[k]]["display_name"]]

\* lines 209-218: the list is copied, the Column objects in it are not;
\* set_ordering (lines 246-249) keeps the argument and resolves it when truthy
TableInit(i, order_by) ==
    /\ tables[i].ipc = "new"
    /\ tables' = [tables EXCEPT ![i] =
                    [@ EXCEPT !.columns = class_columns,
                              !.queryset = <<>>,
                              !.ordering = order_by,
                              !.order_by = IF Truthy(order_by) THEN get_ordering(order_by.s)
                                           ELSE None,
                              !.in_init = TRUE,
                              !.qs = <<>>,
                              !.ipc = "annotate"]]
    /\ UNCHANGED <<heap, class_columns, meta_sortable, ops>>
    /\ UNCHANGED outsideTables

\* lines 220-228: get_queryset calls annotate, which starts from a deep copy
\* of the class-level map
AnnotateCall(i) ==
    /\ tables[i].ipc = "annotate"
    /\ tables' = [tables EXCEPT ![i] =
                    [@ EXCEPT !.annotate = annotations, !.apos = 1, !.ipc = "columns"]]
    /\ UNCHANGED <<heap, class_columns, meta_sortable, ops>>
    /\ UNCHANGED outsideTables

\* as AnnotateColumn, but a name the map already holds keeps its directive
AnnotateColumn_ClassWins(i) ==
    /\ tables[i].ipc = "columns"
    /\ tables[i].apos <= Len(tables[i].columns)
    /\ LET col == heap[tables[i].columns[tables[i].apos]]
           directive == col["annotate"]
       IN tables' = [tables EXCEPT ![i] =
                       [@ EXCEPT !.apos = @ + 1,
                                 !.qs = IF Truthy(directive) /\ directive.t = "callable"
                                        THEN Append(@, QsCall("column", col["name"]))
                                        ELSE @,
                                 !.annotate =
                                     IF /\ Truthy(directive) /\ directive.t # "callable"
                                        /\ PyStr(col["name"]) \notin DOMAIN @
                                     THEN Set(@, PyStr(col["name"]), directive)
                                     ELSE @]]
    /\ UNCHANGED <<heap, class_columns, meta_sortable, ops>>
    /\ UNCHANGED outsideTables

\* lines 229-234: a callable directive is applied to the queryset, any other
\* truthy directive goes into the local map under the column's name
AnnotateColumn(i) ==
    /\ tables[i].ipc = "columns"
    /\ tables[i].apos <= Len(tables[i].columns)
    /\ LET col == heap[tables[i].columns[tables[i].apos]]
           directive == col["annotate"]
       IN tables' = [tables EXCEPT ![i] =
                       [@ EXCEPT !.apos = @ + 1,
                                 !.qs = IF Truthy(directive) /\ directive.t = "callable"
                                        THEN Append(@, QsCall("column", col["name"]))
                                        ELSE @,
                                 !.annotate =
                                     IF Truthy(directive) /\ directive.t # "callable"
                                     THEN Set(@, PyStr(col["name"]), directive)
                                     ELSE @]]
    /\ UNCHANGED <<heap, class_columns, meta_sortable, ops>>
    /\ UNCHANGED outsideTables

\* lines 236-238: qs.annotate(**annotate) unless the map is empty; in
\* __init__ the result goes on to sort, a direct call returns it
AnnotateReturn(i) ==
    /\ tables[i].ipc = "columns"
    /\ tables[i].apos > Len(tables[i].columns)
    /\ LET t == tables[i]
           out == IF DOMAIN t.annotate = {} THEN t.qs
                  ELSE Append(t.qs, QsCall("annotate", DictRow(t.annotate)))
       IN tables' = [tables EXCEPT ![i] =
                       IF t.in_init
                       THEN [@ EXCEPT !.qs = out, !.ipc = "sort"]
                       ELSE [@ EXCEPT !.returned = out, !.ipc = "ready"]]
    /\ UNCHANGED <<heap, class_columns, meta_sortable, ops>>
    /\ UNCHANGED outsideTables

\* lines 240-244 and 220: sort, and self.queryset is set
Sort(i) ==
    /\ tables[i].ipc = "sort"
    /\ LET t == tables[i]
           out == IF meta_sortable /\ Truthy(t.ordering)
                  THEN Append(t.qs, QsCall("order_by", t.order_by))
                  ELSE t.qs
       IN tables' = [tables EXCEPT ![i] =
                       [@ EXCEPT !.queryset = out, !.in_init = FALSE, !.ipc = "ready"]]
    /\ UNCHANGED <<heap, class_columns, meta_sortable, ops>>
    /\ UNCHANGED outsideTables

\* table.set_ordering(order_by) called on a finished instance (lines 246-249):
\* order_by is assigned only when the argument is truthy
SetOrdering(i, order_by) ==
    /\ tables[i].ipc = "ready"
    /\ ops < MaxOps
    /\ ops' = ops + 1
    /\ tables' = [tables EXCEPT ![i] =
                    [@ EXCEPT !.ordering = order_by,
                              !.order_by = IF Truthy(order_by) THEN get_ordering(order_by.s)
                                           ELSE @]]
    /\ UNCHANGED <<heap, class_columns, meta_sortable>>
    /\ UNCHANGED outsideTables

\* table.annotate(qs) called on a finished instance (lines 226-228)
AnnotateAgain(i) ==
    /\ tables[i].ipc = "ready"
    /\ ops < MaxOps
    /\ ops' = ops + 1
    /\ tables' = [tables EXCEPT ![i] =
                    [@ EXCEPT !.qs = <<>>, !.annotate = annotations, !.apos = 1,
                              !.ipc = "columns"]]
    /\ UNCHANGED <<heap, class_columns, meta_sortable>>
    /\ UNCHANGED outsideTables

\* table.columns.append(col): a new Column object, listed by this instance
AppendColumn(i, col) ==
    /\ tables[i].ipc = "ready"
    /\ ops < MaxOps
    /\ ops' = ops + 1
    /\ heap' = Append(heap, col)
    /\ tables' = [tables EXCEPT ![i].columns = Append(@, Len(heap) + 1)]
    /\ UNCHANGED <<class_columns, meta_sortable>>
    /\ UNCHANGED outsideTables

\* del table.columns[k]
RemoveColumn(i, k) ==
    /\ tables[i].ipc = "ready"
    /\ ops < MaxOps
    /\ k \in DOMAIN tables[i].columns
    /\ ops' = ops + 1
    /\ tables' = [tables EXCEPT ![i].columns =
                    SubSeq(@, 1, k - 1) \o SubSeq(@, k + 1, Len(@))]
    /\ UNCHANGED <<heap, class_columns, meta_sortable>>
    /\ UNCHANGED outsideTables

\* table.columns[k][key] = v (Column.__setattr__, lines 167-168): the Column
\* object the list refers to is changed
SetColumnAttr(i, k, key, v) ==
    /\ tables[i].ipc = "ready"
    /\ ops < MaxOps
    /\ k \in DOMAIN tables[i].columns
    /\ ops' = ops + 1
    /\ heap' = [heap EXCEPT ![tables[i].columns[k]] = Set(@, key, v)]
    /\ UNCHANGED <<class_columns, meta_sortable, tables>>
    /\ UNCHANGED outsideTables

---------------------------------------------------------------------------
(* the Table class the instances are made of *)

N_KEY == <<"n">>

\* class BookTable(Table): Meta.model = Book,
\* Meta.fields = ['title', {'name': 'c', 'annotate': <function>},
\*                {'name': 'n', 'annotate': Count(...)}, {'name': 'd', 'annotate': <function>}]
BookFields ==
    ListArg(<< StrV(TITLE),
               DictRow(DictOf({<<"name", StrV(<<"c">>)>>, <<"annotate", Callable(None)>>})),
               DictRow(DictOf({<<"name", StrV(N_KEY)>>, <<"annotate", Expr("Count")>>})),
               DictRow(DictOf({<<"name", StrV(<<"d">>)>>, <<"annotate", Callable(None)>>})) >>)

BookOpts ==
    [fields |-> << ModelField(ID, ID, "AutoField", -1, None),
                   ModelField(TITLE, TITLE, "CharField", 1, None),
                   ModelField(PAGES, PAGES, "IntegerField", 2, None),
                   ModelField(AUTHOR, AUTHOR, "ForeignKey", 3, Remote(FALSE)) >>,
     many_to_many |-> <<>>]

\* the columns get_columns resolves BookFields to
BookColumns == [k \in DOMAIN BookFields.li |-> Column(BookFields.li[k], None, None)]

\* the columns an instance may append: a literal directive, a callable one
NewColumns ==
    { Set(Column(StrV(<<"k">>), None, None), "annotate", Expr("Sum")),
      Set(Column(StrV(<<"f">>), None, None), "annotate", Callable(None)) }

\* the attributes an instance may set on a column of its list
AttrChanges == { <<"display_name", StrV(<<"H">>)>>, <<"annotate", Expr("Max")>> }

OrderByArgs == {None, EmptyStr, StrV(MINUS \o TITLE), StrV(PAGES \o COMMA \o TITLE)}

InitTables ==
    /\ meta_model = Model("Book") /\ apps = Registry("CharField") /\ model_opts = BookOpts
    /\ meta_fields = BookFields /\ meta_exclude = None
    /\ meta_annotations \in Annotations
    /\ meta_sortable \in BOOLEAN
    /\ fields = None /\ exclude = None /\ flds = <<>> /\ fpos = 1
    /\ base_columns = BookColumns
    /\ annotations = meta_annotations
    /\ dpc = "defined"
    /\ heap = BookColumns
    /\ class_columns = [k \in DOMAIN BookColumns |-> k]
    /\ tables = [i \in Insts |-> NewTable]
    /\ ops = 0
    /\ order_arg = <<>> /\ tokens = <<>> /\ ordering = <<>> /\ opc = "idle"
    /\ TagIdle /\ ColIdle /\ RndIdle /\ SftIdle

\* the same class with t1 as its only instance
InitOneTable ==
    /\ meta_model = Model("Book") /\ apps = Registry("CharField") /\ model_opts = BookOpts
    /\ meta_fields = BookFields /\ meta_exclude = None
    /\ meta_annotations \in Annotations
    /\ meta_sortable \in BOOLEAN
    /\ fields = None /\ exclude = None /\ flds = <<>> /\ fpos = 1
    /\ base_columns = BookColumns
    /\ annotations = meta_annotations
    /\ dpc = "defined"
    /\ heap = BookColumns
    /\ class_columns = [k \in DOMAIN BookColumns |-> k]
    /\ tables = [i \in Insts |-> IF i = "t1" THEN NewTable
                                 ELSE [NewTable EXCEPT !.ipc = "absent"]]
    /\ ops = 0
    /\ order_arg = <<>> /\ tokens = <<>> /\ ordering = <<>> /\ opc = "idle"
    /\ TagIdle /\ ColIdle /\ RndIdle /\ SftIdle

NextTables ==
    \E i \in Insts :
        \/ \E order_by \in OrderByArgs : TableInit(i, order_by)
        \/ AnnotateCall(i)
        \/ AnnotateColumn(i)
        \/ AnnotateReturn(i)
        \/ Sort(i)
        \/ \E order_by \in OrderByArgs : SetOrdering(i, order_by)
        \/ AnnotateAgain(i)
        \/ \E col \in NewColumns : AppendColumn(i, col)
        \/ \E k \in DOMAIN tables[i].columns : RemoveColumn(i, k)
        \/ \E k \in DOMAIN tables[i].columns, c \in AttrChanges : SetColumnAttr(i, k, c[1], c[2])

---------------------------------------------------------------------------
(* Column.safe_tag (tables.py lines 89-91) *)

QUOTE == <<"\"">>
APOS == <<"'">>
BACKSLASH == <<"\\">>

\* line 91: the four replace calls, in their order
safe_tag(t) ==
    Replace(Replace(Replace(Replace(t, OPEN \o <<" ">>, OPEN), <<" ">> \o CLOSE, CLOSE),
                    QUOTE, BACKSLASH \o QUOTE),
            APOS, BACKSLASH \o APOS)

\* lines 89-91
SafeTagCall ==
    /\ spc = "call"
    /\ safe' = Safe(safe_tag(self_tag))
    /\ spc' = "done"
    /\ UNCHANGED <<tagVars, colVars, ordVars, clsVars, rndVars, instVars>>

\* the templates safe_tag is run on: text, quotes, a backslash, placeholders
\* in both spacings, block markers
MaxSafePieces == 2

SafePieces ==
    { <<"A">>, QUOTE, APOS, BACKSLASH, Marker(X), OPEN \o <<" ">> \o X \o <<" ">> \o CLOSE,
      Marker(ITEM_A), IfMarker(X), ElseMarker, EndifMarker }

RECURSIVE SafeTemplates(_)
SafeTemplates(n) ==
    IF n = 0 THEN {<<>>}
    ELSE SafeTemplates(n - 1) \cup {s \o p : s \in SafeTemplates(n - 1), p \in SafePieces}

InitSafeTag ==
    /\ self_tag \in SafeTemplates(MaxSafePieces)
    /\ obj = None /\ cell = None /\ row_idx = None
    /\ tag = <<>> /\ replace_vals = <<>> /\ pos = 1 /\ value = None /\ pc = "idle"
    /\ safe = None /\ spc = "call"
    /\ ColIdle /\ OrdIdle /\ ClsIdle /\ RndIdle /\ InstIdle

NextSafeTag == SafeTagCall

---------------------------------------------------------------------------
(* specifications *)

SpecTag == InitTag /\ [][NextTag]_vars

SpecColumn == InitColumn /\ [][NextColumn]_vars

SpecOrdering == InitOrdering /\ [][NextOrdering]_vars

SpecDefine == InitDefine /\ [][NextDefine]_vars

SpecRender == InitRender /\ [][NextRender]_vars

SpecTables == InitTables /\ [][NextTables]_vars

SpecOneTable == InitOneTable /\ [][NextTables]_vars

SpecSafeTag == InitSafeTag /\ [][NextSafeTag]_vars

SpecBlocks == InitBlocks /\ [][NextTag]_vars

Init ==
    \/ InitTag \/ InitColumn \/ InitOrdering \/ InitDefine \/ InitRender \/ InitTables
    \/ InitSafeTag \/ InitBlocks \/ InitOneTable
Next ==
    \/ NextTag \/ NextColumn \/ NextOrdering \/ NextDefine \/ NextRender \/ NextTables
    \/ NextSafeTag
Spec == Init /\ [][Next]_vars

---------------------------------------------------------------------------
(* what the tag grammar says a token stands for, read off the inputs *)

Missing == [t |-> "missing"]

\* item.<attr>: the key of a mapping row that has it, else the attribute of
\* the row, Missing when the row has neither; a callable is invoked
ItemAttr(attr) ==
    LET held == IF obj.t = "dict" /\ attr \in DOMAIN obj.items THEN obj.items[attr]
                ELSE IF obj.t = "object" /\ attr \in DOMAIN obj.attrs THEN obj.attrs[attr]
                ELSE Missing
    IN IF held.t = "callable" THEN held.ret ELSE held

TokenValue(tok) ==
    IF StartsWith(tok, ITEM_DOT) THEN ItemAttr(From(tok, 5))
    ELSE IF tok = ITEM THEN obj
    ELSE IF tok = ROW_IDX THEN row_idx
    ELSE cell

\* the resolution of the token failed: nothing under that name, or the call raised
Fails(tok) == TokenValue(tok) \in {Missing, Raises}

\* the values a condition counts as false for
FalsyValues == {BoolV(FALSE), IntV(0), StrV(<<>>), None, Missing, Raises}
CondFalsy(c) == TokenValue(c) \in FalsyValues

\* the text a value is substituted as
TokenText(tok) == IF TokenValue(tok) = None THEN <<>> ELSE PyStr(TokenValue(tok))

Finished == pc \in {"done", "raised"}
AtToken == pc = "loop" /\ pos <= Len(replace_vals)

\* a {{...}} placeholder occurs in t
HasPlaceholder(t) ==
    \E i \in DOMAIN FindAll(t) : Contains(t, Marker(FindAll(t)[i]))

---------------------------------------------------------------------------
(* claims *)

\* C1: a template made of one conditional block between literal texts comes
\* out as the text before, the branch the condition selects (the if-branch
\* when the condition value is truthy; the else-branch, or nothing without an
\* else, when it is False, 0, "", None, missing or raised), and the text
\* after, with no marker left.
C1_SingleBlockReduced ==
    (Finished /\ self_tag \in BlockTemplates) =>
        /\ pc = "done"
        /\ \A pre \in Lits, c \in Conds, body \in Lits, post \in Lits :
              /\ self_tag = Block(pre, c, body, post) =>
                    tag = pre \o (IF CondFalsy(c) THEN <<>> ELSE body) \o post
              /\ \A alt \in Lits :
                    self_tag = BlockElse(pre, c, body, alt, post) =>
                        tag = pre \o (IF CondFalsy(c) THEN alt ELSE body) \o post

\* C1 witness: a block with an else whose condition is a missing key has been
\* reduced to its else-branch
C1_Witness ==
    /\ pc = "done"
    /\ self_tag = BlockElse(<<"A">>, ITEM_A, <<"A">>, <<"{", "k", "}">>, <<"A">>)
    /\ obj = DictRow(NoAttrs)
    /\ tag = <<"A", "{", "k", "}", "A">>

\* C2: parse_tag never raises on a template that has an if token with no
\* {{endif}} (or whose {{if cond}} text cannot be found).
C2_MalformedIfReturns ==
    LET t == Normalize(self_tag)
    IN ((\E i \in DOMAIN FindAll(t) :
            /\ IsIfCond(FindAll(t)[i])
            /\ (~Contains(t, EndifMarker) \/ ~Contains(t, Marker(FindAll(t)[i]))))
        /\ Finished) => pc = "done"

\* C3: a step of the loop on a token that is no conditional marker replaces
\* every {{token}} by the text of the token's value: the row for item, the
\* key or attribute (called when callable) for item.<attr>, the row index for
\* row_idx, the cell for anything else, "" for None.
C3_TokenReplaced ==
    [][(AtToken /\ ~IsSkipped(Val) /\ ~IsIfCond(Val) /\ ~Fails(Val)) =>
            /\ pc' = "loop" /\ pos' = pos + 1
            /\ tag' = Replace(tag, Marker(Val), TokenText(Val))]_vars

\* C3 witness: a callable attribute and the row index have been substituted
C3_Witness ==
    /\ pc = "done"
    /\ self_tag = Marker(ITEM_A) \o Marker(ROW_IDX)
    /\ obj = ObjectRow(A_KEY :> Callable(StrV(BOB)))
    /\ row_idx = IntV(1)
    /\ tag = BOB \o <<"1">>

\* C4: a step of the loop on an item.<attr> token whose attribute or key is
\* missing, whose row is no container, or whose callable raises, takes ""
\* as the value and does not raise: a plain token is replaced by "" and the
\* loop goes on.
C4_FailureIsEmpty ==
    [][(AtToken /\ ~IsSkipped(Val)
          /\ Fails(IF IsIfCond(Val) THEN From(Val, 3) ELSE Val)) =>
            /\ value' = EmptyStr
            /\ ~IsIfCond(Val) =>
                  /\ pc' = "loop" /\ pos' = pos + 1
                  /\ tag' = Replace(tag, Marker(Val), <<>>)]_vars

\* C4 witness: a raising callable was resolved to "" and parse_tag returned
C4_Witness ==
    /\ pc = "done"
    /\ self_tag = <<"A">> \o Marker(ITEM_A)
    /\ obj = ObjectRow(A_KEY :> Callable(Raises))
    /\ value = EmptyStr
    /\ tag = <<"A">>

\* C5: a template with no {{...}} placeholder is returned unchanged.
C5_NoPlaceholderUnchanged ==
    (Finished /\ ~HasPlaceholder(self_tag)) => (pc = "done" /\ tag = self_tag)

---------------------------------------------------------------------------
(* what a Column call gives for name, display_name and order_by, by shape *)

ArgItems == arg_name.items
ArgList == arg_name.li

\* the name: the bare argument, the first entry of the list, the name key
ArgName ==
    IF IsMapping(arg_name)
    THEN IF "name" \in DOMAIN ArgItems THEN ArgItems["name"] ELSE None
    ELSE IF IsList(arg_name)
    THEN IF Len(ArgList) >= 1 THEN ArgList[1] ELSE None
    ELSE arg_name

\* the display name: the key or the second entry, the keyword when they are absent
ArgDisplay ==
    IF IsMapping(arg_name) /\ "display_name" \in DOMAIN ArgItems THEN ArgItems["display_name"]
    ELSE IF IsList(arg_name) /\ Len(ArgList) >= 2 THEN ArgList[2]
    ELSE kw_display

\* the sort expression: the order_by key or the third entry, else the keyword
ArgOrder ==
    IF IsMapping(arg_name) /\ "order_by" \in DOMAIN ArgItems THEN ArgItems["order_by"]
    ELSE IF IsList(arg_name) /\ Len(ArgList) >= 3 THEN ArgList[3]
    ELSE kw_order

\* C6: once a Column is constructed from a bare name, a list or a mapping
\* with a known name, display_name is the given one, or else the name with
\* "_" turned into " " and title-cased, and order_by is the given one, or else
\* the name; so n, [n] and {name: n} give the same display_name and order_by.
C6_DisplayAndOrderSet ==
    (cpc = "done" /\ ArgName # None) =>
        /\ column["name"] = ArgName
        /\ column["display_name"] =
              IF ArgDisplay # None THEN ArgDisplay
              ELSE StrV(StrTitle(Replace(ArgName.s, <<"_">>, <<" ">>)))
        /\ column["order_by"] = IF ArgOrder # None THEN ArgOrder ELSE ArgName
        /\ column["display_name"] # None /\ column["order_by"] # None

\* C6 witness: the list [a_b] was constructed into display_name "A B" and
\* order_by "a_b"
C6_Witness ==
    /\ cpc = "done"
    /\ arg_name = ListArg(<<StrV(<<"a", "_", "b">>)>>)
    /\ kw_display = None /\ kw_order = None
    /\ column["display_name"] = StrV(<<"A", " ", "B">>)
    /\ column["order_by"] = StrV(<<"a", "_", "b">>)

\* C7: a Column constructed from a mapping that has no name key and has a
\* display_name gets as name the display_name lower-cased with spaces turned
\* into underscores.
C7_NameFromDisplayName ==
    (/\ cpc = "done" /\ IsMapping(arg_name)
     /\ "name" \notin DOMAIN ArgItems
     /\ "display_name" \in DOMAIN ArgItems
     /\ ArgItems["display_name"] # None) =>
        column["name"] =
            StrV(Replace(StrLower(ArgItems["display_name"].s), <<" ">>, <<"_">>))

\* C8: a Column constructed from a mapping with a name, key sort = s and no
\* order_by has order_by = s, not the name.
C8_SortIsOrderBy ==
    (/\ cpc = "done" /\ IsMapping(arg_name)
     /\ ArgName # None
     /\ "sort" \in DOMAIN ArgItems
     /\ "order_by" \notin DOMAIN ArgItems
     /\ kw_order = None) =>
        column["order_by"] = ArgItems["sort"]

---------------------------------------------------------------------------
(* what a sort token stands for, read off the declared schema *)

\* the declared kind of the title of a book and of the name of an author
DeclaredKind == apps["Book"][TITLE].kind

\* the kind of the field each path reaches from Book; no other path of the
\* model reaches a field
ReachedKind ==
    (TITLE :> DeclaredKind) @@ (PAGES :> "IntegerField") @@ (AUTHOR :> "ForeignKey")
    @@ ((AUTHOR \o DUNDER \o NAME) :> DeclaredKind)

\* char, text, email, file, file-path, slug, URL, UUID, generic IP address
TextKinds ==
    {"CharField", "TextField", "EmailField", "FileField", "FilePathField",
     "SlugField", "URLField", "UUIDField", "GenericIPAddressField"}

SpecTokens == Split(order_arg, COMMA)
Negated(tok) == Len(tok) > 0 /\ tok[1] = "-"
PathOf(tok) == IF Negated(tok) THEN Tail(tok) ELSE tok
Resolves(tok) == meta_model # None /\ PathOf(tok) \in DOMAIN ReachedKind

\* C9: get_ordering gives one result per token of the specification, in
\* order; a token whose path reaches a text-kind field gives the
\* case-insensitive key on the whole path, descending exactly when the token
\* starts with "-", and a token that reaches a field of another kind gives
\* the token itself.
C9_OrderingByFieldKind ==
    opc = "done" =>
        /\ Len(ordering) = Len(SpecTokens)
        /\ \A i \in DOMAIN SpecTokens :
              LET tok == SpecTokens[i]
              IN Resolves(tok) =>
                    ordering[i] = IF ReachedKind[PathOf(tok)] \in TextKinds
                                  THEN UpperKey(PathOf(tok), Negated(tok))
                                  ELSE StrV(tok)

\* C9 witness: "-author__name,pages" over a slug name came out as the
\* descending key on author__name followed by "pages"
C9_Witness ==
    /\ opc = "done"
    /\ DeclaredKind = "SlugField"
    /\ order_arg = MINUS \o AUTHOR \o DUNDER \o NAME \o COMMA \o PAGES
    /\ ordering = <<UpperKey(AUTHOR \o DUNDER \o NAME, TRUE), StrV(PAGES)>>

\* C10: a token whose field lookup fails at some hop (unknown field, unknown
\* or non-relation segment, no model) comes out exactly as given, "-"
\* included, get_ordering still returns one result per token, and the tokens
\* beside it that do resolve are transformed as usual.
C10_FailedLookupUnchanged ==
    opc = "done" =>
        /\ Len(ordering) = Len(SpecTokens)
        /\ \A i \in DOMAIN SpecTokens :
              LET tok == SpecTokens[i]
              IN ~Resolves(tok) =>
                    /\ ordering[i] = StrV(tok)
                    /\ \A j \in DOMAIN SpecTokens :
                          (Resolves(SpecTokens[j])
                             /\ ReachedKind[PathOf(SpecTokens[j])] \in TextKinds) =>
                                ordering[j].t = "Upper"

\* C10 witness: "-bogus__title,-title" over a char title came out as the
\* first token untouched and the descending key on title
C10_Witness ==
    /\ opc = "done"
    /\ DeclaredKind = "CharField"
    /\ meta_model # None
    /\ order_arg = MINUS \o BOGUS \o DUNDER \o TITLE \o COMMA \o MINUS \o TITLE
    /\ ordering = <<StrV(MINUS \o BOGUS \o DUNDER \o TITLE), UpperKey(TITLE, TRUE)>>


---------------------------------------------------------------------------
(* Table definitions: what Meta says, read off the inputs *)

DefFinished == dpc \in {"defined", "raised"}
HasModel == meta_model # None
Underived == meta_fields = None \/ IsEmpty(meta_fields)

\* the names Meta.exclude lists
Excluded == IF meta_exclude = None THEN {} ELSE {meta_exclude.li[i] : i \in DOMAIN meta_exclude.li}

\* the name a column spec resolves to: the bare name, the first entry of a
\* list, the "name" of a mapping; None when it gives none
EntryName(e) ==
    IF e.t = "list" THEN (IF e.li = <<>> THEN None ELSE e.li[1])
    ELSE IF e.t = "dict" THEN (IF "name" \in DOMAIN e.items THEN e.items["name"] ELSE None)
    ELSE e

\* the fields of the two schemas a column is expected for, in declared order:
\* <<name, human label title-cased>>
FieldsOf(model) ==
    IF model = Model("Person")
    THEN << <<NAME, <<"N", "a", "m", "e">> >>,
            <<EMAIL, <<"E", "-", "M", "a", "i", "l", " ", "A", "d", "d", "r", "e", "s", "s">> >> >>
    ELSE << <<FIRST_NAME, <<"F", "i", "r", "s", "t", " ", "N", "a", "m", "e">> >>,
            <<COURSES, <<"C", "o", "u", "r", "s", "e", "s">> >>,
            <<GRADE, <<"G", "r", "a", "d", "e">> >> >>

NotExcluded(f) == StrV(f[1]) \notin Excluded
IsKept(name) == name # None /\ name \notin Excluded

\* <<name, display_name, order_by>> of the columns of the class
Shapes(cols) == [i \in DOMAIN cols |-> <<cols[i]["name"], cols[i]["display_name"], cols[i]["order_by"]>>]
NamesOf(cols) == [i \in DOMAIN cols |-> cols[i]["name"]]

\* C11: no column of a defined Table has a name that Meta.exclude lists,
\* whether the columns are derived from the schema, given as a list of column
\* specs or given as a dict of name to override spec.
C11_NoExcludedName ==
    dpc = "defined" => \A i \in DOMAIN base_columns : base_columns[i]["name"] \notin Excluded

\* C12 as stated: with fields None or empty, whatever exclude is, a
\* schema-backed Table is defined with one column per schema field.
C12_DerivedWhateverExclude ==
    (HasModel /\ Underived /\ DefFinished) =>
        /\ dpc = "defined"
        /\ Shapes(base_columns) =
              [i \in DOMAIN FieldsOf(meta_model) |->
                  <<StrV(FieldsOf(meta_model)[i][1]), StrV(FieldsOf(meta_model)[i][2]),
                    StrV(FieldsOf(meta_model)[i][1])>>]

\* C12: for a schema-backed Table whose fields is None or empty, and whose
\* fields and exclude are not both None, get_columns returns one column per
\* schema field that exclude does not name, in declared order, without the
\* auto primary key and the parent link, with display_name the title-cased
\* human label and order_by the field name.
C12_DerivedColumns ==
    (HasModel /\ Underived /\ ~(meta_fields = None /\ meta_exclude = None) /\ DefFinished) =>
        /\ dpc = "defined"
        /\ LET kept == SelectSeq(FieldsOf(meta_model), NotExcluded)
           IN Shapes(base_columns) =
                 [i \in DOMAIN kept |-> <<StrV(kept[i][1]), StrV(kept[i][2]), StrV(kept[i][1])>>]

C12_Witness ==
    /\ dpc = "defined" /\ meta_model = Model("Student") /\ Underived
    /\ Len(base_columns) = 3

\* C13: a Table whose fields is a list of column specs, with or without a
\* model, has as class-level columns one Column per entry whose name is not
\* None and not in exclude, in list order.
C13_ExplicitListColumns ==
    (IsList(meta_fields) /\ meta_fields.li # <<>> /\ DefFinished) =>
        /\ dpc = "defined"
        /\ NamesOf(base_columns) =
              SelectSeq([i \in DOMAIN meta_fields.li |-> EntryName(meta_fields.li[i])], IsKept)

\* C14 as stated: a Table without a model that leaves fields and exclude
\* unset is never defined.
C14_NoModelUnsetFails ==
    (~HasModel /\ meta_fields = None /\ meta_exclude = None) => dpc # "defined"

\* C14: a Table that leaves fields and exclude unset fails at its definition
\* when it has a schema model, and is defined with no columns when it has none.
C14_UnsetFailsAtDefinition ==
    (meta_fields = None /\ meta_exclude = None /\ DefFinished) =>
        IF HasModel THEN dpc = "raised"
        ELSE dpc = "defined" /\ base_columns = <<>>

C14_Witness ==
    dpc = "raised" /\ HasModel /\ meta_fields = None /\ meta_exclude = None

---------------------------------------------------------------------------
(* render: the cell the row holds for the column, read off the inputs *)

ColName == r_col["name"].s
HasTag == r_col["tag"] \notin {None, EmptyStr}

\* the key of a mapping row, the attribute of any other row, "" when the row
\* has neither; a callable is invoked
RowCell ==
    LET held == IF r_obj.t = "dict"
                THEN (IF ColName \in DOMAIN r_obj.items THEN r_obj.items[ColName] ELSE EmptyStr)
                ELSE IF r_obj.t = "object" /\ ColName \in DOMAIN r_obj.attrs
                     THEN r_obj.attrs[ColName]
                     ELSE EmptyStr
    IN IF held.t = "callable" THEN held.ret ELSE held

RenderFinished == rpc \in {"done", "raised"}

\* C15: render takes the cell from the row's key or attribute of the
\* column's name ("" when missing, the result of the call when callable) and
\* then takes exactly one path: parse_tag of the column's tag on (row, cell,
\* row_idx) when the column has a tag; else the render_<name> hook, called
\* once with (row, cell, row_idx), when the table has it; else str(cell).
\* No hook is ever called for a column that has a tag.
C15_RenderPriority ==
    /\ HasTag => hook_calls = <<>>
    /\ (RenderFinished /\ RowCell # Raises) =>
          IF HasTag
          THEN /\ self_tag = r_col["tag"].s /\ obj = r_obj /\ cell = RowCell
               /\ row_idx = r_row_idx
               /\ IF rpc = "done" THEN pc = "done" /\ result = Safe(tag) ELSE pc = "raised"
          ELSE /\ rpc = "done" /\ pc = "idle"
               /\ IF ColName \in hooks
                  THEN /\ hook_calls = <<[obj |-> r_obj, cell |-> RowCell, row_idx |-> r_row_idx]>>
                       /\ result = Safe(hook_ret)
                  ELSE /\ hook_calls = <<>>
                       /\ result = Safe(PyStr(RowCell))

C15_Witness ==
    /\ rpc = "done" /\ HasTag /\ ColName \in hooks
    /\ r_obj = ObjectRow(A_KEY :> Callable(StrV(BOB)))
    /\ result = Safe(BOB \o <<"!">>)

---------------------------------------------------------------------------
(* instances: what the class and each instance show *)

\* the columns of the class-level list, and of an instance's list, by value
ClassColumns == [k \in DOMAIN class_columns |-> heap[class_columns[k]]]
ColumnsOf(i) == [k \in DOMAIN tables[i].columns |-> heap[tables[i].columns[k]]]

\* a mutation done through the columns of instance i
Mutates(i) ==
    \/ \E col \in NewColumns : AppendColumn(i, col)
    \/ \E k \in DOMAIN tables[i].columns : RemoveColumn(i, k)
    \/ \E k \in DOMAIN tables[i].columns, c \in AttrChanges : SetColumnAttr(i, k, c[1], c[2])

\* the map annotate() of instance i hands to the queryset: the class-level
\* map and the literal directives of the columns of i
Directives(i) ==
    LET cols == ColumnsOf(i)
        named == {k \in DOMAIN cols : Truthy(cols[k]["annotate"]) /\ cols[k]["annotate"].t = "expr"}
    IN [n \in DOMAIN annotations \cup {cols[k]["name"].s : k \in named} |->
           IF \E k \in named : cols[k]["name"].s = n
           THEN cols[CHOOSE k \in named : cols[k]["name"].s = n /\
                        \A l \in named : cols[l]["name"].s = n => l <= k]["annotate"]
           ELSE annotations[n]]

\* C16: a mutation done through the columns of one instance (a column added
\* or removed, an attribute of a column set) changes neither the columns of
\* the class nor the columns and headers of the other instance.
C16_ColumnsIsolated ==
    [][\A i \in Insts :
          Mutates(i) =>
             /\ ClassColumns' = ClassColumns
             /\ \A j \in Insts \ {i} :
                   ColumnsOf(j)' = ColumnsOf(j) /\ headers(j)' = headers(j)]_vars

\* C17: the class-level annotations map stays the map Meta declares, whatever
\* instances are made and whatever annotate() calls run, and a column
\* annotation added through one instance does not show in the map another
\* instance annotates with.
C17_AnnotationsIsolated ==
    [][/\ annotations' = meta_annotations'
       /\ \A i \in Insts :
             Mutates(i) => \A j \in Insts \ {i} : Directives(j)' = Directives(j)]_vars

---------------------------------------------------------------------------
(* safe_tag: the text the helper is said to give *)

\* every "{{" and "}}" marker of t as a single brace
CollapseBraces(t) == Replace(Replace(t, OPEN, <<"{">>), CLOSE, <<"}">>)

\* t with a backslash before every single and double quote
RECURSIVE EscapeQuotes(_)
EscapeQuotes(t) ==
    IF t = <<>> THEN <<>>
    ELSE (IF t[1] \in {"\"", "'"} THEN <<"\\", t[1]>> ELSE <<t[1]>>) \o EscapeQuotes(Tail(t))

\* C18: safe_tag returns the column's template with every double-brace
\* marker collapsed to a single brace and every single and double quote
\* backslash-escaped; nothing is substituted and no block is evaluated.
C18_BracesCollapsed ==
    spc = "done" => safe = Safe(EscapeQuotes(CollapseBraces(Normalize(self_tag))))

---------------------------------------------------------------------------
(* several blocks, and values with template text: what the grammar gives *)

\* the text a token stands for: "" when the resolution fails or gives None
TextOf(tok) == IF Fails(tok) \/ TokenValue(tok) = None THEN <<>> ELSE PyStr(TokenValue(tok))

\* the k-th block reduced by its own condition
ReducedBlock(b, k) ==
    IF ~CondFalsy(b.c) THEN BodyOf(k)
    ELSE IF b.has_else THEN AltOf(k)
    ELSE <<>>

RECURSIVE ReducedSeq(_, _)
ReducedSeq(bs, k) ==
    IF k > Len(bs) THEN <<"A">>
    ELSE <<"A">> \o ReducedBlock(bs[k], k) \o ReducedSeq(bs, k + 1)

\* C19: a template of several well-formed blocks in sequence, with or
\* without else branches, with the same or different conditions, comes out
\* as the concatenation of each block reduced by its own condition.
C19_BlocksReducedSeparately ==
    \A bs \in BlockSeqs(MaxBlocks) :
        (Len(bs) > 1 /\ self_tag = SeqText(bs, 1) /\ Finished) =>
            pc = "done" /\ tag = ReducedSeq(bs, 1)

\* a falsy block without else before a truthy block with else, on the same row
C19_Witness ==
    /\ pc = "done"
    /\ self_tag = SeqText(<<[c |-> ITEM_A, has_else |-> FALSE], [c |-> X, has_else |-> TRUE]>>, 1)
    /\ CondFalsy(ITEM_A) /\ ~CondFalsy(X)
    /\ tag = <<"A", "A">> \o BodyOf(2) \o <<"A">>

\* C20: the output is the simultaneous substitution of the placeholders of
\* the original template: a value that holds {{token}}, {{else}} or
\* {{endif}} text comes out verbatim and does not change how a later block
\* is cut.
C20_ValuesNotInterpreted ==
    Finished =>
        /\ \A p \in {X, ITEM_A}, q \in {X, ITEM_A} :
              self_tag = PairText(p, q) =>
                  pc = "done" /\ tag = TextOf(p) \o <<"-">> \o TextOf(q)
        /\ \A p \in {X, ITEM_A}, c \in {X, ITEM_A} :
              self_tag = ThenBlockText(p, c) =>
                  pc = "done" /\ tag = TextOf(p) \o (IF CondFalsy(c) THEN AltOf(1) ELSE BodyOf(1))

---------------------------------------------------------------------------
(* ordering and the build of the queryset *)

Constructed(i) == tables[i].ipc \notin {"new", "absent"}

\* C21: once an instance is constructed, and after any set_ordering calls,
\* order_by agrees with ordering: it is get_ordering(ordering) when ordering
\* is non-empty and None when ordering is None or empty.
C21_OrderByAgrees ==
    \A i \in Insts :
        Constructed(i) =>
            LET t == tables[i]
            IN IF t.ordering # None /\ t.ordering # EmptyStr
               THEN t.order_by = get_ordering(t.ordering.s)
               ELSE t.order_by = None

\* the directive of a Column object, by kind
IsCallableDirective(k) == Truthy(heap[k]["annotate"]) /\ heap[k]["annotate"].t = "callable"

IsLiteralDirective(k) == Truthy(heap[k]["annotate"]) /\ heap[k]["annotate"].t # "callable"

\* one step per callable directive, in column order
CallableSteps(i) ==
    LET cs == SelectSeq(tables[i].columns, IsCallableDirective)
    IN [j \in DOMAIN cs |-> QsCall("column", heap[cs[j]]["name"])]

\* the class-level map with the columns' literal directives laid over it
MergedAnnotations(i) ==
    LET cols == tables[i].columns
        lit == {j \in DOMAIN cols : IsLiteralDirective(cols[j])}
        at(n) == {j \in lit : PyStr(heap[cols[j]]["name"]) = n}
        last(n) == CHOOSE j \in at(n) : \A o \in at(n) : o <= j
        names == {PyStr(heap[cols[j]]["name"]) : j \in lit}
    IN [n \in DOMAIN annotations \cup names |->
            IF n \in names THEN heap[cols[last(n)]]["annotate"] ELSE annotations[n]]

MergedStep(i) ==
    IF DOMAIN MergedAnnotations(i) = {} THEN <<>>
    ELSE <<QsCall("annotate", DictRow(MergedAnnotations(i)))>>

OrderStep(i) ==
    IF meta_sortable /\ tables[i].ordering # None /\ tables[i].ordering # EmptyStr
    THEN <<QsCall("order_by", get_ordering(tables[i].ordering.s))>>
    ELSE <<>>

\* C22: when __init__ has built the queryset it is, in this order, one step
\* per callable column directive in column order, one annotate step with
\* the class-level map overlaid by the columns' literal directives, and
\* last the order_by step if the table sorts.
C22_AnnotateBeforeSort ==
    [][\A i \in Insts :
        (tables[i].ipc = "sort" /\ tables'[i].ipc = "ready") =>
            tables'[i].queryset = CallableSteps(i) \o MergedStep(i) \o OrderStep(i)]_vars

C22_Witness ==
    /\ <<"n">> \in DOMAIN annotations
    /\ tables["t1"].ipc = "ready"
    /\ Len(tables["t1"].queryset) = 4
    /\ tables["t1"].queryset[1].method = "column"
    /\ tables["t1"].queryset[2].method = "column"
    /\ tables["t1"].queryset[3].method = "annotate"
    /\ tables["t1"].queryset[3].args.items[<<"n">>] = Expr("Count")
    /\ tables["t1"].queryset[4].method = "order_by"

===========================================================================
